---- MODULE Spec2Model ----
(***************************************************************************)
(* Contraction Clock (src/src/App.jsx): the session state of the           *)
(* ContractionClock component, its command handlers and effects, and the   *)
(* values every render derives from the state (chart segments, the 5-1-1   *)
(* rule, the live pan offset).                                             *)
(*                                                                         *)
(* Units.  Times are integer milliseconds, as Date.now() returns them.     *)
(* Pixel quantities are held in thousandths of a pixel, so that            *)
(* secPx(ms) = (ms / 1000) * PX_PER_SEC is the integer ms * PX_PER_SEC;    *)
(* the arithmetic is exact (the rounding of IEEE doubles is not modelled). *)
(* A stored intensity (intensity / 10) is held in hundredths.              *)
(***************************************************************************)
EXTENDS Integers, Sequences, FiniteSets, TLC

(* ---------------------------- program constants ------------------------ *)

TICK_MS == 100
Y_AXIS_W == 44
PX_PER_SEC == 4
MIN_REST_PX == 32
LEAD_PX == 24
AXIS_INSET == 8
MIN_BELL_PX == 8
MIN_DURATION_MS == 1000
DEFAULT_INTENSITY == 5
FIVE_MIN_MS == 5 * 60 * 1000
ONE_MIN_MS == 60 * 1000
ONE_HOUR_MS == 60 * 60 * 1000

\* null, as held by activeStart and qualifyingStreakStart.  Every timestamp of
\* the model is positive, so 0 is free to stand for it; like null, 0 is falsy
\* in `!activeStart`.
Null == 0

(* ------------------------------- bounds -------------------------------- *)

\* The history is not extended past MaxEvents recorded contractions.
MaxEvents == 3
\* Date.now() at the first mount.
StartTime == 1

\* The instants (offsets from StartTime) at which Date.now() is read.  They
\* are chosen around the program's thresholds: 999/1000 ms around the minimum
\* duration, 60000 ms durations, 300000 ms start-to-start intervals and
\* 3599999/3600000 ms around the hour.
Offsets ==
  { 0, 999, 1000, 61000, 62000, 300999, 360999, 3600998, 3600999 }

Instants == { StartTime + d : d \in Offsets }

\* The value the intensity slider is moved to, away from its default (the
\* slider's range is 1..10).
IntensityInputs == { 10 }

\* Widths the chart container is measured at, in pixels (0: not laid out).
MeasuredWidths == { 0, 30, 100 }

(* ------------------------------- helpers ------------------------------- *)

Max(a, b) == IF a >= b THEN a ELSE b
Min(a, b) == IF a <= b THEN a ELSE b

\* n pixels, in thousandths of a pixel.
Px(n) == n * 1000

\* secPx(ms) = (ms / 1000) * PX_PER_SEC pixels, in thousandths of a pixel.
secPx(ms) == ms * PX_PER_SEC

\* intensity / 10, in hundredths.
StoredIntensity(intensity) == (intensity * 100) \div 10

\* formatDuration(ms): s = Math.round(ms / 1000), m = Math.floor(s / 60);
\* the text shows m and s % 60 when m > 0 and s alone otherwise.
formatDuration(ms) ==
  LET s == (ms + 500) \div 1000
      m == s \div 60
  IN  IF m > 0 THEN [m |-> m, s |-> s % 60] ELSE [m |-> 0, s |-> s]

(* --------------------------- amplitude curve --------------------------- *)

\* `steps` in buildBellPath: the curve is sampled at t = i / steps, i = 0..steps.
STEPS == 80

\* Math.exp returns reals; its values are held in units of 1 / ExpUnit and
\* the values of gauss in units of 1 / AmpUnit.
ExpUnit == 100000
AmpUnit == 10000

\* Math.exp(-(d * d) / 288) for d = 0..40, rounded to 1 / ExpUnit (entry
\* d + 1).  With sigma = 0.15 and x = i / 80 the exponent of gauss,
\* -((x - 0.5) ** 2) / (2 * sigma ** 2), is -((i - 40) ** 2) / 288.
ExpTable ==
  << 100000, 99653, 98621, 96923, 94596, 91686, 88250, 84355, 80074, 75484,
     70665, 65696, 60653, 55610, 50634, 45783, 41111, 36660, 32465, 28551,
     24935, 21627, 18627, 15933, 13534, 11416, 9563, 7956, 6573, 5393,
     4394, 3555, 2857, 2279, 1806, 1421, 1111, 862, 665, 509, 387 >>

\* raw = Math.exp(-((x - 0.5) ** 2) / (2 * sigma ** 2)) at x = i / 80.
GaussRaw(i) == ExpTable[(IF i >= 40 THEN i - 40 ELSE 40 - i) + 1]

\* floor = Math.exp(-(0.5 ** 2) / (2 * sigma ** 2)), the exponent being
\* -1600 / 288.
GaussFloor == ExpTable[41]

\* Mutant of gauss: the difference is not divided by 1 - floor.
gaussUnnormalised(i) ==
  Max(0, ((GaussRaw(i) - GaussFloor) * AmpUnit) \div ExpUnit)

\* gauss(i / 80) = Math.max(0, (raw - floor) / (1 - floor)), in units of
\* 1 / AmpUnit.
gauss(i) ==
  Max(0, ((GaussRaw(i) - GaussFloor) * AmpUnit) \div (ExpUnit - GaussFloor))

(* ------------------------------ bell path ------------------------------ *)

CHART_H == 220
X_LABEL_H == 22
PLOT_H == CHART_H - X_LABEL_H
PEAK_PAD == 16

\* progress is held in 64ths, so that steps * progress and progress * widthPx
\* are exact, in the code's doubles as here.
ProgressUnit == 64

\* gauss(i / 80) in 1e-7, for |i - 40| = 0..40 (the curve is symmetric).
GaussFine == << 10000000, 9965203, 9861536, 9691138, 9457497, 9165327, 8820409,
   8429405, 7999641, 7538882, 7055098, 6556242, 6050036, 5543781, 5044197,
   4557293, 4088269, 3641461, 3220315, 2827388, 2464390, 2132236, 1831124,
   1560630, 1319796, 1107239, 921247, 759873, 621027, 502546, 402265, 318074,
   247954, 190017, 142522, 103890, 72712, 47742, 27899, 12249, 0 >>

\* num / den rounded to the nearest integer, halves upwards.
Round(num, den) == (2 * num + den) \div (2 * den)

\* px.toFixed(1) in tenths of a pixel, for px = num / den thousandths.
ToFixed1(num, den) == Round(num, 100 * den)

\* py.toFixed(1) in tenths, for py = PLOT_H - gauss(t) * intensity * (PLOT_H - PEAK_PAD)
\* at t = i / 80; level is the intensity in hundredths.
PyTenths(i, level) ==
  LET d == IF i >= 40 THEN i - 40 ELSE 40 - i
      peak == (GaussFine[d + 1] * (PLOT_H - PEAK_PAD)) \div 1000
  IN  Round(PLOT_H * 1000000 - peak * level, 100000)

\* The empty string of both outputs.
NoPath == [stroke |-> << >>, fill |-> << >>]

\* No call of buildBellPath was made yet.
NotDrawn == [called |-> FALSE]

\* buildBellPath(x0, widthPx, intensity, progress): a path is its points in
\* order, each << x, y >> in tenths of a pixel as toFixed(1) writes them; x0
\* and widthPx are in thousandths of a pixel.
buildBellPath(x0, widthPx, level, progress) ==
  LET capped == Min(progress, ProgressUnit)
      maxStep == (STEPS * capped) \div ProgressUnit
      pts == [j \in 1..(maxStep + 1) |->
                << ToFixed1(x0 * STEPS + (j - 1) * widthPx, STEPS), PyTenths(j - 1, level) >>]
      lastX == ToFixed1(x0 * ProgressUnit + capped * widthPx, ProgressUnit)
  IN  IF Len(pts) < 2 THEN NoPath
      ELSE [stroke |-> pts,
            fill |-> pts \o << << lastX, PLOT_H * 10 >>,
                               << ToFixed1(x0, 1), PLOT_H * 10 >> >>]

(* ---------------------------- persisted text --------------------------- *)

\* What localStorage holds under STORAGE_KEY: nothing, or a text.  A text is
\* modelled by what JSON.parse makes of it: "invalid" (it throws), "falsy"
\* (null, 0, false, ""), "object", "number", "string" (truthy values that are
\* not arrays), or "array" with the items in order.
Absent == [kind |-> "absent", items |-> <<>>]

Text(kind) == [kind |-> kind, items |-> <<>>]

\* Mutant of Stringify: the intensity is written as a whole number.
StringifyWholeIntensity(cs) ==
  [kind |-> "array",
   items |-> [i \in 1..Len(cs) |->
                << cs[i].id, cs[i].start, cs[i].end, cs[i].duration,
                   (cs[i].intensity \div 100) * 100 >>]]

\* JSON.stringify(contractions): the array's items in order, each written
\* with its keys id, start, end, duration, intensity.
Stringify(cs) ==
  [kind |-> "array",
   items |-> [i \in 1..Len(cs) |->
                << cs[i].id, cs[i].start, cs[i].end, cs[i].duration, cs[i].intensity >>]]

\* JSON.parse of an array text written by Stringify.
ParseItems(items) ==
  [i \in 1..Len(items) |->
     [id |-> items[i][1], start |-> items[i][2], end |-> items[i][3],
      duration |-> items[i][4], intensity |-> items[i][5]]]

\* The useState initializer of contractions:
\*   try { return JSON.parse(localStorage.getItem(STORAGE_KEY)) || []; }
\*   catch { return []; }
\* getItem gives null for an absent key and JSON.parse(null) is null.
LoadedIsArray(st) == st.kind \in {"absent", "invalid", "falsy", "array"}

LoadContractions(st) ==
  IF st.kind = "array" THEN ParseItems(st.items) ELSE <<>>

\* Texts found under the key at the first mount.
InitialStorage ==
  { Absent, Text("invalid"), Text("falsy"), Text("object"), Text("number"),
    Text("string"), Stringify(<<>>) }

(* -------------------------------- state -------------------------------- *)

VARIABLES
  clock,           \* the last value Date.now() returned
  now,             \* the `now` state, set by the interval timer
  contractions,    \* the `contractions` state: the recorded Events, in order
  activeStart,     \* the `activeStart` state: Null or the start of the open one
  intensity,       \* the `intensity` state, 1..10
  liveScroll,      \* the `liveScroll` state
  containerWidth,  \* the `containerWidth` state, in pixels
  storage,         \* localStorage under STORAGE_KEY
  persistPending,  \* the persist effect is scheduled and has not run yet
  crashed,         \* a render threw: the component is not mounted (the
                   \* loaded value is then no array; contractions is left
                   \* empty and is not read)
  lastCmd,         \* history: the last command that wrote the session
                   \* ("load", "begin", "end", "discard", "clear")
  intensityAtBegin, \* history: the slider's value when the last contraction
                   \* was begun (Null when none was since the mount)
  drawn            \* the last call of buildBellPath made on its own, with its
                   \* arguments and its result (NotDrawn when there was none)

vars == << clock, now, contractions, activeStart, intensity, liveScroll,
           containerWidth, storage, persistPending, crashed, lastCmd,
           intensityAtBegin, drawn >>

\* The mount of the component when Date.now() is t and the key holds st.  The
\* first render runs contractions.forEach, which throws a TypeError when the
\* loaded value is a truthy non-array; otherwise the persist effect is
\* scheduled, as after every first render.
Mount(st, t) ==
  /\ clock' = t
  /\ now' = t
  /\ contractions' = LoadContractions(st)
  /\ activeStart' = Null
  /\ intensity' = DEFAULT_INTENSITY
  /\ liveScroll' = TRUE
  /\ containerWidth' = 0
  /\ storage' = st
  /\ crashed' = ~LoadedIsArray(st)
  /\ persistPending' = LoadedIsArray(st)
  /\ lastCmd' = "load"
  /\ intensityAtBegin' = Null
  /\ drawn' = NotDrawn

Init ==
  /\ clock = StartTime
  /\ now = StartTime
  /\ storage \in InitialStorage
  /\ contractions = LoadContractions(storage)
  /\ activeStart = Null
  /\ intensity = DEFAULT_INTENSITY
  /\ liveScroll = TRUE
  /\ containerWidth = 0
  /\ crashed = ~LoadedIsArray(storage)
  /\ persistPending = LoadedIsArray(storage)
  /\ lastCmd = "load"
  /\ intensityAtBegin = Null
  /\ drawn = NotDrawn

\* A handler runs on a mounted component, after the effects of the previous
\* render have been flushed.
Ready == ~crashed /\ ~persistPending

(* ------------------------------- actions ------------------------------- *)

\* useEffect(() => localStorage.setItem(STORAGE_KEY, JSON.stringify(contractions)),
\*           [contractions])
PersistEffect ==
  /\ ~crashed
  /\ persistPending
  /\ storage' = Stringify(contractions)
  /\ persistPending' = FALSE
  /\ UNCHANGED << clock, now, contractions, activeStart, intensity, liveScroll,
                  containerWidth, crashed, lastCmd,
                  intensityAtBegin, drawn >>

\* Mutant of Tick: Date.now() may return less than it did before.
TickUnordered(t) ==
  /\ Ready
  /\ clock' = t
  /\ now' = t
  /\ UNCHANGED << contractions, activeStart, intensity, liveScroll,
                  containerWidth, storage, persistPending, crashed, lastCmd,
                  intensityAtBegin, drawn >>

\* setInterval(() => setNow(Date.now()), TICK_MS)
Tick(t) ==
  /\ Ready
  /\ t >= clock
  /\ clock' = t
  /\ now' = t
  /\ UNCHANGED << contractions, activeStart, intensity, liveScroll,
                  containerWidth, storage, persistPending, crashed, lastCmd,
                  intensityAtBegin, drawn >>

\* Mutant of Discarded: the comparison is `<=`.
DiscardedInclusive(duration) == duration <= MIN_DURATION_MS

\* Mutant of Discarded: only a toggle with no elapsed time is discarded.
DiscardedNonPositive(duration) == duration <= 0

\* `duration < 1000` in toggleContraction: the open contraction is discarded.
Discarded(duration) == duration < MIN_DURATION_MS

\* Mutant of NewContraction: the duration is kept in whole seconds.
NewContractionInSeconds(start, end, level) ==
  [id |-> start, start |-> start, end |-> end, duration |-> (end - start) \div 1000,
   intensity |-> StoredIntensity(level)]

\* The record toggleContraction appends.
NewContraction(start, end, level) ==
  [id |-> start, start |-> start, end |-> end, duration |-> end - start,
   intensity |-> StoredIntensity(level)]

\* Mutant of Begin: the toggle does not test whether a contraction is open.
BeginUntested(t) ==
  /\ Ready
  /\ t >= clock
  /\ clock' = t
  /\ activeStart' = t
  /\ lastCmd' = "begin"
  /\ intensityAtBegin' = intensity
  /\ UNCHANGED << now, contractions, intensity, liveScroll, containerWidth,
                  storage, persistPending, crashed, drawn >>

\* toggleContraction with no open contraction: setActiveStart(Date.now()).
Begin(t) ==
  /\ Ready
  /\ activeStart = Null
  /\ t >= clock
  /\ clock' = t
  /\ activeStart' = t
  /\ lastCmd' = "begin"
  /\ intensityAtBegin' = intensity
  /\ UNCHANGED << now, contractions, intensity, liveScroll, containerWidth,
                  storage, persistPending, crashed, drawn >>

\* Mutant of End: the new contraction is put in front ([c, ...prev]).
EndPrepending ==
  /\ Ready
  /\ activeStart # Null
  /\ LET duration == now - activeStart
     IN  IF Discarded(duration)
         THEN /\ activeStart' = Null
              /\ lastCmd' = "discard"
              /\ UNCHANGED << contractions, persistPending >>
         ELSE /\ Len(contractions) < MaxEvents
              /\ contractions' =
                   << NewContraction(activeStart, now, intensity) >> \o contractions
              /\ activeStart' = Null
              /\ persistPending' = TRUE
              /\ lastCmd' = "end"
  /\ UNCHANGED << clock, now, intensity, liveScroll, containerWidth, storage,
                  crashed,
                  intensityAtBegin, drawn >>

\* Mutant of End: the contraction keeps the slider's value of when it began.
EndWithBeginIntensity ==
  /\ Ready
  /\ activeStart # Null
  /\ LET duration == now - activeStart
     IN  IF Discarded(duration)
         THEN /\ activeStart' = Null
              /\ lastCmd' = "discard"
              /\ UNCHANGED << contractions, persistPending >>
         ELSE /\ Len(contractions) < MaxEvents
              /\ contractions' =
                   Append(contractions, NewContraction(activeStart, now, intensityAtBegin))
              /\ activeStart' = Null
              /\ persistPending' = TRUE
              /\ lastCmd' = "end"
  /\ UNCHANGED << clock, now, intensity, liveScroll, containerWidth, storage,
                  crashed, intensityAtBegin, drawn >>

\* toggleContraction with an open contraction.
End ==
  /\ Ready
  /\ activeStart # Null
  /\ LET duration == now - activeStart
     IN  IF Discarded(duration)
         THEN /\ activeStart' = Null
              /\ lastCmd' = "discard"
              /\ UNCHANGED << contractions, persistPending >>
         ELSE /\ Len(contractions) < MaxEvents
              /\ contractions' =
                   Append(contractions, NewContraction(activeStart, now, intensity))
              /\ activeStart' = Null
              /\ persistPending' = TRUE
              /\ lastCmd' = "end"
  /\ UNCHANGED << clock, now, intensity, liveScroll, containerWidth, storage,
                  crashed,
                  intensityAtBegin, drawn >>

\* clearSession: setContractions([]); setActiveStart(null);
\* localStorage.removeItem(STORAGE_KEY).  The new array is a new value of
\* `contractions`, so the persist effect is scheduled.
ClearSession ==
  /\ Ready
  /\ contractions' = <<>>
  /\ activeStart' = Null
  /\ storage' = Absent
  /\ persistPending' = TRUE
  /\ lastCmd' = "clear"
  /\ UNCHANGED << clock, now, intensity, liveScroll, containerWidth, crashed,
                  intensityAtBegin, drawn >>

\* The slider's onChange: setIntensity(+e.target.value).
SetIntensity(n) ==
  /\ Ready
  /\ intensity' = n
  /\ UNCHANGED << clock, now, contractions, activeStart, liveScroll,
                  containerWidth, storage, persistPending, crashed, lastCmd,
                  intensityAtBegin, drawn >>

\* The Live button's onClick: setLiveScroll(!liveScroll).
ToggleLive ==
  /\ Ready
  /\ liveScroll' = ~liveScroll
  /\ UNCHANGED << clock, now, contractions, activeStart, intensity,
                  containerWidth, storage, persistPending, crashed, lastCmd,
                  intensityAtBegin, drawn >>

\* The ResizeObserver callback and the measurements after mount and resize:
\* setContainerWidth(width).
Measure(w) ==
  /\ Ready
  /\ containerWidth' = w
  /\ UNCHANGED << clock, now, contractions, activeStart, intensity, liveScroll,
                  storage, persistPending, crashed, lastCmd,
                  intensityAtBegin, drawn >>

\* The page is loaded again: every state is rebuilt from the stored text.
Reload(t) ==
  /\ t >= clock
  /\ Mount(storage, t)

Next ==
  \/ PersistEffect
  \/ \E t \in Instants : Tick(t)
  \/ \E t \in Instants : Begin(t)
  \/ End
  \/ ClearSession
  \/ \E n \in IntensityInputs : SetIntensity(n)
  \/ ToggleLive
  \/ \E w \in MeasuredWidths : Measure(w)
  \/ \E t \in Instants : Reload(t)

Spec == Init /\ [][Next]_vars

(* --------------------------- chart segments ---------------------------- *)

\* The label of a segment that shows none.
NoLabel == [m |-> 0, s |-> 0]

\* { type: "flat", x, widthPx, label? }
Flat(x, widthPx, labelled, label) ==
  [type |-> "flat", x |-> x, widthPx |-> widthPx, labelled |-> labelled,
   label |-> label, active |-> FALSE, level |-> 0]

\* The progress of a segment that has none (undefined).
NoProgress == -1

\* { type: "bell", x, widthPx, c } and
\* { type: "bell", x, widthPx, active: true, progress: 1, intensity }
Bell(x, widthPx, active, level) ==
  [type |-> "bell", x |-> x, widthPx |-> widthPx, labelled |-> FALSE,
   label |-> NoLabel, active |-> active, level |-> level,
   progress |-> IF active THEN 1 ELSE NoProgress]

\* seg.progress ?? 1, the fraction of the bell that is drawn.
RevealFraction(seg) == IF seg.progress = NoProgress THEN 1 ELSE seg.progress

\* segments.push(seg); cursor += seg.widthPx
Push(b, seg) ==
  [segments |-> Append(b.segments, seg), cursor |-> b.cursor + seg.widthPx]

\* Mutant of RestPx: the width is not clamped from below.
RestPxUnclamped(restMs) == secPx(restMs)

\* Math.max(MIN_REST_PX, secPx(restMs))
RestPx(restMs) == Max(Px(MIN_REST_PX), secPx(restMs))

\* Mutant of BellPx: the width is not clamped from below.
BellPxUnclamped(ms) == secPx(ms)

\* Math.max(8, secPx(ms))
BellPx(ms) == Max(Px(MIN_BELL_PX), secPx(ms))

\* Mutant of LeadIn: the leading gap is put at the cursor.
LeadInAtCursor ==
  LET cursor == Px(Y_AXIS_W + AXIS_INSET)
  IN  [segments |-> << Flat(cursor, Px(LEAD_PX), FALSE, NoLabel) >>,
       cursor |-> cursor]

\* let cursor = Y_AXIS_W + 8;
\* segments.push({ type: "flat", x: cursor - LEAD_PX, widthPx: LEAD_PX })
LeadIn ==
  LET cursor == Px(Y_AXIS_W + AXIS_INSET)
  IN  [segments |-> << Flat(cursor - Px(LEAD_PX), Px(LEAD_PX), FALSE, NoLabel) >>,
       cursor |-> cursor]

\* contractions.forEach((c, i) => ...), from the i-th contraction on.
RECURSIVE ForEachContraction(_, _, _)
ForEachContraction(cs, i, b) ==
  IF i > Len(cs) THEN b
  ELSE LET restMs == cs[i].start - cs[i - 1].end
           b1 == IF i > 1
                 THEN Push(b, Flat(b.cursor, RestPx(restMs), TRUE, formatDuration(restMs)))
                 ELSE b
           b2 == Push(b1, Bell(b1.cursor, BellPx(cs[i].duration), FALSE, cs[i].intensity))
       IN  ForEachContraction(cs, i + 1, b2)

\* if (activeStart) { ... }: the rest before the open contraction and its bell.
ActiveSegments(cs, start, nw, level, b) ==
  IF start = Null THEN b
  ELSE LET elapsedMs == nw - start
           restMs == start - cs[Len(cs)].end
           b1 == IF Len(cs) > 0
                 THEN Push(b, Flat(b.cursor, RestPx(restMs), FALSE, NoLabel))
                 ELSE b
       IN  Push(b1, Bell(b1.cursor, BellPx(elapsedMs), TRUE, StoredIntensity(level)))

\* Mutant of Chart: svgWidth is taken before `cursor += LEAD_PX`.
ChartWidthBeforeTrail(cs, start, nw, level) ==
  LET b1 == ForEachContraction(cs, 1, LeadIn)
      b2 == ActiveSegments(cs, start, nw, level, b1)
      b3 == Push(b2, Flat(b2.cursor, Px(LEAD_PX), FALSE, NoLabel))
  IN  [segments |-> b3.segments, svgWidth |-> b2.cursor]

\* The chart of one render: the segments in order and svgWidth.
Chart(cs, start, nw, level) ==
  LET b1 == ForEachContraction(cs, 1, LeadIn)
      b2 == ActiveSegments(cs, start, nw, level, b1)
      b3 == Push(b2, Flat(b2.cursor, Px(LEAD_PX), FALSE, NoLabel))
  IN  [segments |-> b3.segments, svgWidth |-> b3.cursor]

segments == Chart(contractions, activeStart, now, intensity).segments
svgWidth == Chart(contractions, activeStart, now, intensity).svgWidth

(* ----------------------------- 5-1-1 rule ------------------------------ *)

\* Mutant of WalkBack: both comparisons are strict.
RECURSIVE WalkBackStrict(_, _, _)
WalkBackStrict(cs, i, streakBegin) ==
  IF i < 1 THEN streakBegin
  ELSE LET interval == cs[i + 1].start - cs[i].start
           dur == cs[i].duration
       IN  IF dur > ONE_MIN_MS /\ interval < FIVE_MIN_MS
           THEN WalkBackStrict(cs, i - 1, i)
           ELSE streakBegin

\* Mutant of WalkBack: only the interval is tested.
RECURSIVE WalkBackIntervalOnly(_, _, _)
WalkBackIntervalOnly(cs, i, streakBegin) ==
  IF i < 1 THEN streakBegin
  ELSE LET interval == cs[i + 1].start - cs[i].start
       IN  IF interval <= FIVE_MIN_MS
           THEN WalkBackIntervalOnly(cs, i - 1, i)
           ELSE streakBegin

\* Mutant of WalkBack: a failed test skips the contraction and the scan goes
\* on (`continue` for `break`).
RECURSIVE WalkBackNoBreak(_, _, _)
WalkBackNoBreak(cs, i, streakBegin) ==
  IF i < 1 THEN streakBegin
  ELSE LET interval == cs[i + 1].start - cs[i].start
           dur == cs[i].duration
       IN  IF dur >= ONE_MIN_MS /\ interval <= FIVE_MIN_MS
           THEN WalkBackNoBreak(cs, i - 1, i)
           ELSE WalkBackNoBreak(cs, i - 1, streakBegin)

\* for (let i = contractions.length - 2; i >= 0; i--) { ... }, with 1-based
\* indices: the index of the earliest contraction still in the streak.
RECURSIVE WalkBack(_, _, _)
WalkBack(cs, i, streakBegin) ==
  IF i < 1 THEN streakBegin
  ELSE LET interval == cs[i + 1].start - cs[i].start
           dur == cs[i].duration
       IN  IF dur >= ONE_MIN_MS /\ interval <= FIVE_MIN_MS
           THEN WalkBack(cs, i - 1, i)
           ELSE streakBegin

\* Mutant of QualifyingStreakStart: the last contraction's own duration is
\* not tested.
QualifyingStreakStartUntested(cs) ==
  IF Len(cs) >= 1
  THEN cs[WalkBack(cs, Len(cs) - 1, Len(cs))].start
  ELSE Null

\* if (contractions.length >= 1) { ... if (contractions[streakBegin].duration
\* >= ONE_MIN_MS) { ...; qualifyingStreakStart = contractions[streakBegin].start } }
QualifyingStreakStart(cs) ==
  IF Len(cs) >= 1 /\ cs[Len(cs)].duration >= ONE_MIN_MS
  THEN cs[WalkBack(cs, Len(cs) - 1, Len(cs))].start
  ELSE Null

\* Mutant of StreakDuration: the null test is dropped (`now - null` is `now`).
StreakDurationUnguarded(cs, nw) == nw - QualifyingStreakStart(cs)

\* qualifyingStreakStart !== null ? now - qualifyingStreakStart : 0
StreakDuration(cs, nw) ==
  IF QualifyingStreakStart(cs) # Null THEN nw - QualifyingStreakStart(cs) ELSE 0

\* Mutant of Rule511Met: the rule lapses when the last contraction started
\* more than five minutes ago.
Rule511MetWhileRecent(cs, nw) ==
  /\ StreakDuration(cs, nw) >= ONE_HOUR_MS
  /\ Len(cs) > 0
  /\ nw - cs[Len(cs)].start <= FIVE_MIN_MS

\* streakDuration >= ONE_HOUR_MS
Rule511Met(cs, nw) == StreakDuration(cs, nw) >= ONE_HOUR_MS

qualifyingStreakStart == QualifyingStreakStart(contractions)
streakDuration == StreakDuration(contractions, now)
rule511Met == Rule511Met(contractions, now)

(* ------------------------- session averages ---------------------------- *)

RECURSIVE SeqSum(_)
SeqSum(s) == IF s = << >> THEN 0 ELSE s[1] + SeqSum(Tail(s))

\* A mean is held as the sum and the count; null has no count.
NullMean == [isNull |-> TRUE, sum |-> 0, count |-> 0]

\* s.length ? s.reduce((a, b) => a + b, 0) / s.length : null
Mean(s) ==
  IF Len(s) > 0 THEN [isNull |-> FALSE, sum |-> SeqSum(s), count |-> Len(s)]
  ELSE NullMean

\* contractions.length >= 2
\*   ? contractions.slice(1).map((c, i) => c.start - contractions[i].start) : []
AllIntervals(cs) ==
  IF Len(cs) >= 2 THEN [i \in 1..(Len(cs) - 1) |-> cs[i + 1].start - cs[i].start]
  ELSE << >>

AvgRecentInterval(cs) == Mean(AllIntervals(cs))

\* contractions.filter(c => c.start >= qualifyingStreakStart), or [] when
\* there is no streak.
StreakContractions(cs) ==
  IF QualifyingStreakStart(cs) # Null
  THEN SelectSeq(cs, LAMBDA c : c.start >= QualifyingStreakStart(cs))
  ELSE << >>

\* Mutant of AvgRecentDuration: the mean is taken over the streak only.
AvgStreakDuration(cs) ==
  Mean([i \in 1..Len(StreakContractions(cs)) |-> StreakContractions(cs)[i].duration])

AvgRecentDuration(cs) == Mean([i \in 1..Len(cs) |-> cs[i].duration])

\* met: avgRecentInterval !== null && avgRecentInterval <= FIVE_MIN_MS
FrequencyMet(cs) ==
  LET a == AvgRecentInterval(cs)
  IN  ~a.isNull /\ a.sum <= FIVE_MIN_MS * a.count

\* met: avgRecentDuration !== null && avgRecentDuration >= ONE_MIN_MS
DurationMet(cs) ==
  LET a == AvgRecentDuration(cs)
  IN  ~a.isNull /\ a.sum >= ONE_MIN_MS * a.count

(* ------------------------------ live pan ------------------------------- *)

\* containerWidth > 0 ? containerWidth : svgWidth
EffectiveContainerWidth(width, svgW) == IF width > 0 THEN Px(width) ELSE svgW

\* Mutant of PanX: the offset is not clamped to at most 0.
PanXNoUpperClamp(live, width, svgW) ==
  IF live
  THEN Max(-(svgW - Px(Y_AXIS_W)), EffectiveContainerWidth(width, svgW) - svgW)
  ELSE 0

\* Mutant of PanX: the offset is not clamped from below.
PanXNoLowerClamp(live, width, svgW) ==
  IF live
  THEN Min(0, EffectiveContainerWidth(width, svgW) - svgW)
  ELSE 0

\* liveScroll
\*   ? Math.max(-(svgWidth - Y_AXIS_W), Math.min(0, effectiveContainerWidth - svgWidth))
\*   : 0
PanX(live, width, svgW) ==
  IF live
  THEN Max(-(svgW - Px(Y_AXIS_W)), Min(0, EffectiveContainerWidth(width, svgW) - svgW))
  ELSE 0

panX == PanX(liveScroll, containerWidth, svgWidth)

(* ------------------- synthetic histories for the rule ------------------ *)

\* The longest synthetic history.
MaxRun == 4

\* Durations and start-to-start intervals on both sides of the thresholds.
SyntheticDurations == { ONE_MIN_MS - 1, ONE_MIN_MS }
SyntheticIntervals == { FIVE_MIN_MS, FIVE_MIN_MS + 1 }

RECURSIVE SumTo(_, _)
SumTo(g, k) == IF k = 0 THEN 0 ELSE g[k] + SumTo(g, k - 1)

\* The history toggleContraction records when contraction i starts
\* g[1] + ... + g[i-1] after the first and lasts d[i].
MakeHistory(d, g) ==
  [i \in 1..Len(d) |->
     NewContraction(StartTime + SumTo(g, i - 1), StartTime + SumTo(g, i - 1) + d[i],
                    DEFAULT_INTENSITY)]

SyntheticHistories ==
  UNION { { MakeHistory(d, g) : d \in [1..n -> SyntheticDurations],
                                g \in [1..(n - 1) -> SyntheticIntervals] }
          : n \in 1..MaxRun }

\* The component as mounted on a stored synthetic history, its persist effect
\* run, at the time the last contraction ended.
InitStreak ==
  /\ contractions \in SyntheticHistories
  /\ clock = contractions[Len(contractions)].end
  /\ now = clock
  /\ activeStart = Null
  /\ intensity = DEFAULT_INTENSITY
  /\ liveScroll = TRUE
  /\ containerWidth = 0
  /\ storage = Stringify(contractions)
  /\ crashed = FALSE
  /\ persistPending = FALSE
  /\ lastCmd = "load"
  /\ intensityAtBegin = Null
  /\ drawn = NotDrawn

\* The timer fires around one hour after the start of any contraction.
NextStreak ==
  \E i \in 1..Len(contractions), d \in { ONE_HOUR_MS - 1, ONE_HOUR_MS } :
    Tick(contractions[i].start + d)

SpecStreak == InitStreak /\ [][NextStreak]_vars

(* ----------------- synthetic histories for the averages ---------------- *)

\* The longest history and the number of timer periods followed.
MaxBadgeRun == 3
MaxBadgeTicks == 3

\* Durations and intervals whose means fall on, above and below the
\* thresholds.
BadgeDurations == { ONE_MIN_MS - 1, ONE_MIN_MS + 1 }
BadgeIntervals == { FIVE_MIN_MS - 1, FIVE_MIN_MS + 1 }

BadgeHistories ==
  UNION { { MakeHistory(d, g) : d \in [1..n -> BadgeDurations],
                                g \in [1..(n - 1) -> BadgeIntervals] }
          : n \in 0..MaxBadgeRun }

\* The time the component is mounted: when the last contraction ended.
BadgeMountTime(cs) == IF Len(cs) = 0 THEN StartTime ELSE cs[Len(cs)].end

InitBadges ==
  /\ contractions \in BadgeHistories
  /\ clock = BadgeMountTime(contractions)
  /\ now = clock
  /\ activeStart = Null
  /\ intensity = DEFAULT_INTENSITY
  /\ liveScroll = TRUE
  /\ containerWidth = 0
  /\ storage = Stringify(contractions)
  /\ crashed = FALSE
  /\ persistPending = FALSE
  /\ lastCmd = "load"
  /\ intensityAtBegin = Null
  /\ drawn = NotDrawn

NextBadges ==
  \E k \in 1..MaxBadgeTicks : Tick(BadgeMountTime(contractions) + k * TICK_MS)

SpecBadges == InitBadges /\ [][NextBadges]_vars

(* ------------------------- calls of buildBellPath ---------------------- *)

\* The arguments tried: the x of the first bell and of a later one, the
\* narrowest bell and a one-minute bell, the slider at 5 and at 10, and every
\* progress from 0 to 1 in 64ths.
PathX0 == { Px(Y_AXIS_W + AXIS_INSET), Px(Y_AXIS_W + AXIS_INSET + MIN_BELL_PX + MIN_REST_PX) }
PathWidth == { Px(MIN_BELL_PX), secPx(ONE_MIN_MS) }
PathLevel == { StoredIntensity(DEFAULT_INTENSITY), StoredIntensity(10) }
PathProgress == 0..ProgressUnit

\* buildBellPath(x0, widthPx, intensity, progress) is called.
Draw(x0, widthPx, level, progress) ==
  /\ ~crashed
  /\ drawn' = [called |-> TRUE, x0 |-> x0, widthPx |-> widthPx, level |-> level,
               progress |-> progress,
               path |-> buildBellPath(x0, widthPx, level, progress)]
  /\ UNCHANGED << clock, now, contractions, activeStart, intensity, liveScroll,
                  containerWidth, storage, persistPending, crashed, lastCmd,
                  intensityAtBegin >>

\* The component mounted on an empty session.
InitPath ==
  /\ Init
  /\ storage = Absent

NextPath ==
  \E x0 \in PathX0, widthPx \in PathWidth, level \in PathLevel, progress \in PathProgress :
    Draw(x0, widthPx, level, progress)

SpecPath == InitPath /\ [][NextPath]_vars

(* -------------------------------- claims ------------------------------- *)

RECURSIVE SumWidths(_)
SumWidths(segs) ==
  IF segs = << >> THEN 0 ELSE segs[1].widthPx + SumWidths(Tail(segs))

Last(cs) == cs[Len(cs)]
Front(cs) == SubSeq(cs, 1, Len(cs) - 1)

\* C1 (as stated): in every render the widths of all segments (leading gap,
\* rests, bells, active bell, trailing gap) add up to svgWidth.
C1_WidthsSumToExtent ==
  ~crashed => SumWidths(segments) = svgWidth

\* C1 (amended): the widths of all segments add up to svgWidth minus the x of
\* the leading gap, which is Y_AXIS_W + 8 - LEAD_PX = 28 pixels.
C1_WidthsSumToExtentMinusLeadX ==
  ~crashed =>
    LET chart == Chart(contractions, activeStart, now, intensity)
    IN  /\ chart.segments[1].x = Px(Y_AXIS_W + AXIS_INSET - LEAD_PX)
        /\ SumWidths(chart.segments) = chart.svgWidth - chart.segments[1].x

\* C1 witness: a render with two recorded contractions and an open one, so
\* that every kind of segment is emitted.
C1_Witness ==
  /\ ~crashed
  /\ Len(contractions) = 2
  /\ activeStart # Null
  /\ Len(segments) = 7

\* C2 (as stated): once clearSession and the persist effect it schedules have
\* run, the storage key is absent and the session is empty.
C2_ClearLeavesKeyAbsent ==
  (lastCmd = "clear" /\ ~persistPending) =>
    (storage = Absent /\ contractions = << >>)

\* C3 (as stated): every flat segment, the leading and trailing ones
\* included, is at least MIN_REST_PX wide.
C3_EveryGapAtLeastMinRest ==
  ~crashed =>
    LET segs == segments
    IN  \A i \in 1..Len(segs) :
          segs[i].type = "flat" => segs[i].widthPx >= Px(MIN_REST_PX)

\* C3 (amended): every rest between two bells is at least MIN_REST_PX (32)
\* wide; the leading and trailing flats are LEAD_PX (24) wide.
C3_EveryRestAtLeastMinRest ==
  ~crashed =>
    LET segs == segments
    IN  /\ \A i \in 2..(Len(segs) - 1) :
             segs[i].type = "flat" => segs[i].widthPx >= Px(MIN_REST_PX)
        /\ segs[1].type = "flat" /\ segs[1].widthPx = Px(LEAD_PX)
        /\ Last(segs).type = "flat" /\ Last(segs).widthPx = Px(LEAD_PX)
        /\ LEAD_PX < MIN_REST_PX

\* C3 witness: a rest shorter than MIN_REST_PX worth of time between two
\* recorded contractions, and one before an open contraction.
C3_Witness ==
  /\ ~crashed
  /\ Len(contractions) = 2
  /\ secPx(contractions[2].start - contractions[1].end) < Px(MIN_REST_PX)
  /\ activeStart # Null
  /\ secPx(activeStart - contractions[2].end) > Px(MIN_REST_PX)

\* C4: every bell segment is at least 8 pixels wide: the bells of recorded
\* contractions and the active bell, also while now is earlier than
\* activeStart.
C4_EveryBellAtLeastMinWidth ==
  ~crashed =>
    LET segs == segments
    IN  \A i \in 1..Len(segs) :
          segs[i].type = "bell" => segs[i].widthPx >= Px(MIN_BELL_PX)

\* C4 witness: an open contraction whose start is later than now, after a
\* recorded contraction shorter than 8 pixels worth of time.
C4_Witness ==
  /\ ~crashed
  /\ activeStart # Null
  /\ now < activeStart
  /\ Len(contractions) > 0
  /\ secPx(contractions[1].duration) < Px(MIN_BELL_PX)
  /\ \E i \in 1..Len(segments) : segments[i].type = "bell" /\ segments[i].active

\* C5: the toggle that ends an open contraction when now - activeStart (the
\* elapsed time the handler computes) is exactly 1000 appends exactly one
\* contraction, of duration 1000, and leaves the earlier ones as they were.
C5_EndAtExactlyMinDurationAppends ==
  [][ (End /\ now - activeStart = MIN_DURATION_MS) =>
        /\ Len(contractions') = Len(contractions) + 1
        /\ Front(contractions') = contractions
        /\ Last(contractions').duration = 1000
        /\ Last(contractions').start = activeStart
        /\ activeStart' = Null ]_vars

\* C5 witness: the state right after such a toggle.
C5_Witness ==
  /\ lastCmd = "end"
  /\ persistPending
  /\ Last(contractions).duration = MIN_DURATION_MS
  /\ now = Last(contractions).end

\* C6: the toggle that ends an open contraction when now - activeStart is
\* less than 1000 appends nothing, leaves the history and the stored text
\* unchanged, throws nothing and leaves no open contraction.
C6_EndBeforeMinDurationDiscards ==
  [][ (End /\ now - activeStart < MIN_DURATION_MS) =>
        /\ contractions' = contractions
        /\ activeStart' = Null
        /\ storage' = storage
        /\ ~crashed'
        /\ ~persistPending' ]_vars

\* C6 witness: the state right after a discarded toggle, on a non-empty
\* history.
C6_Witness ==
  /\ lastCmd = "discard"
  /\ activeStart = Null
  /\ ~persistPending
  /\ Len(contractions) > 0
  /\ storage = Stringify(contractions)

\* C7 (as stated): a load that finds no text, an unparseable text, or a
\* parseable text that is not an array gives an empty session and a render
\* that completes.
C7_MalformedLoadsEmpty ==
  (lastCmd = "load" /\ storage.kind # "array") =>
    (~crashed /\ contractions = << >>)

\* Every contraction lasts at least a minute and starts at most five minutes
\* after the one before.
AllQualify(cs) ==
  /\ \A i \in 1..Len(cs) : cs[i].duration >= ONE_MIN_MS
  /\ \A i \in 1..(Len(cs) - 1) : cs[i + 1].start - cs[i].start <= FIVE_MIN_MS

\* C8: when every contraction qualifies and every start-to-start interval is
\* at most five minutes, the streak starts at the first contraction, and the
\* rule is not met at qualifyingStreakStart + 3599999 and met at
\* qualifyingStreakStart + 3600000.
C8_FullStreakMeetsRuleAtOneHour ==
  (~crashed /\ Len(contractions) > 0 /\ AllQualify(contractions)) =>
    /\ qualifyingStreakStart = contractions[1].start
    /\ (now = qualifyingStreakStart + ONE_HOUR_MS - 1) => ~rule511Met
    /\ (now = qualifyingStreakStart + ONE_HOUR_MS) => rule511Met

\* C8 witness: four contractions of exactly 60000 ms, exactly 300000 ms
\* apart, at exactly one hour after the first start.
C8_Witness ==
  /\ Len(contractions) = 4
  /\ \A i \in 1..4 : contractions[i].duration = 60000
  /\ \A i \in 1..3 : contractions[i + 1].start - contractions[i].start = 300000
  /\ now = contractions[1].start + 3600000
  /\ rule511Met

\* C9: while the last contraction is shorter than a minute there is no
\* streak, whatever the earlier contractions and now are.
C9_ShortLastEventMeansNoStreak ==
  (~crashed /\ Len(contractions) > 0 /\ Last(contractions).duration < ONE_MIN_MS) =>
    /\ qualifyingStreakStart = Null
    /\ streakDuration = 0
    /\ ~rule511Met

\* C9 witness: a toggle has appended a contraction shorter than a minute to
\* a history whose streak had met the rule.
C9_Witness ==
  /\ lastCmd = "end"
  /\ Len(contractions) >= 2
  /\ Last(contractions).duration < ONE_MIN_MS
  /\ Rule511Met(Front(contractions), now)

\* C10: panX is 0 when liveScroll is off, when it is on and svgWidth is at
\* most the measured container width, and when it is on and the container
\* width is not measured (0).
C10_PanIsZero ==
  ~crashed =>
    LET svgW == svgWidth
        pan == PanX(liveScroll, containerWidth, svgW)
    IN  /\ ~liveScroll => pan = 0
        /\ (liveScroll /\ containerWidth > 0 /\ svgW <= Px(containerWidth)) => pan = 0
        /\ (liveScroll /\ containerWidth = 0) => pan = 0

\* C10 witness: live mode, a recorded contraction, and a measured container
\* wider than the chart.
C10_Witness ==
  /\ ~crashed
  /\ liveScroll
  /\ containerWidth > 0
  /\ Len(contractions) > 0
  /\ svgWidth < Px(containerWidth)
  /\ panX = 0

\* C11: at the sample points t = i / 80, i = 0..80, gauss is 0 at t = 0 and
\* t = 1, 1 at t = 0.5, never negative, non-decreasing up to t = 0.5 and
\* non-increasing from there on, in every render.
C11_GaussIsNormalisedBump ==
  ~crashed =>
    /\ gauss(0) = 0
    /\ gauss(STEPS) = 0
    /\ gauss(STEPS \div 2) = AmpUnit
    /\ \A i \in 0..STEPS : gauss(i) >= 0
    /\ \A i \in 0..(STEPS \div 2 - 1) : gauss(i) <= gauss(i + 1)
    /\ \A i \in (STEPS \div 2)..(STEPS - 1) : gauss(i) >= gauss(i + 1)

\* C11 witness: a render that draws a bell, whose curve rises strictly from
\* the first sample to the peak and falls strictly to the last.
C11_Witness ==
  /\ ~crashed
  /\ Len(contractions) > 0
  /\ \E i \in 1..Len(segments) : segments[i].type = "bell"
  /\ gauss(0) < gauss(STEPS \div 4) /\ gauss(STEPS \div 4) < gauss(STEPS \div 2)
  /\ gauss(STEPS \div 2) > gauss((3 * STEPS) \div 4) /\ gauss((3 * STEPS) \div 4) > gauss(STEPS)

\* The contractions from the k-th on all last at least a minute and each
\* starts at most five minutes after the one before.
TrailQualifies(cs, k) ==
  /\ \A j \in k..Len(cs) : cs[j].duration >= ONE_MIN_MS
  /\ \A j \in k..(Len(cs) - 1) : cs[j + 1].start - cs[j].start <= FIVE_MIN_MS

\* The first index of the longest such trailing run.
TrailStart(cs) ==
  CHOOSE k \in 1..Len(cs) :
    /\ TrailQualifies(cs, k)
    /\ \A j \in 1..(k - 1) : ~TrailQualifies(cs, j)

\* C12: when the last contraction lasts at least a minute,
\* qualifyingStreakStart is the start of the first contraction of the longest
\* trailing run in which every contraction lasts at least a minute and every
\* start-to-start interval is at most five minutes; the contraction before
\* the run is excluded, and so is everything before it.
C12_StreakIsMaximalTrailingRun ==
  (~crashed /\ Len(contractions) > 0
     /\ Last(contractions).duration >= ONE_MIN_MS) =>
    /\ qualifyingStreakStart = contractions[TrailStart(contractions)].start
    /\ \A j \in 1..(TrailStart(contractions) - 1) :
         contractions[j].start < qualifyingStreakStart

\* C12 witness: four contractions of which the second is too short; the
\* first qualifies and is within five minutes of the second, and the streak
\* starts at the third.
C12_Witness ==
  /\ Len(contractions) = 4
  /\ contractions[1].duration >= ONE_MIN_MS
  /\ contractions[2].duration < ONE_MIN_MS
  /\ contractions[3].duration >= ONE_MIN_MS
  /\ contractions[4].duration >= ONE_MIN_MS
  /\ \A j \in 1..3 : contractions[j + 1].start - contractions[j].start <= FIVE_MIN_MS
  /\ qualifyingStreakStart = contractions[3].start

\* A step that appends no contraction and does not clear: a tick, a begin, a
\* slider change or a discarded end.
QuietStep ==
  \/ \E t \in Instants : Tick(t)
  \/ \E t \in Instants : Begin(t)
  \/ \E n \in IntensityInputs : SetIntensity(n)
  \/ (End /\ Discarded(now - activeStart))

\* C13 (state part): streakDuration is now - qualifyingStreakStart when there
\* is a streak and 0 when there is none.
C13_StreakDurationValue ==
  ~crashed =>
    LET qs == IF Len(contractions) > 0 /\ Last(contractions).duration >= ONE_MIN_MS
              THEN contractions[TrailStart(contractions)].start
              ELSE Null
    IN  /\ qs # Null => streakDuration = now - qs
        /\ qs = Null => streakDuration = 0

\* C13: over a tick, a begin, a slider change or a discarded end,
\* qualifyingStreakStart is unchanged and streakDuration does not decrease,
\* and streakDuration has the value stated above in the state reached.
C13_QuietStepsKeepStreak ==
  [][QuietStep =>
       /\ qualifyingStreakStart' = qualifyingStreakStart
       /\ streakDuration' >= streakDuration
       /\ C13_StreakDurationValue']_vars

\* C13 witness: a contraction is open, ticks have passed since it began, and
\* a streak is running.
C13_Witness ==
  /\ Ready
  /\ lastCmd = "begin"
  /\ activeStart # Null
  /\ now > activeStart
  /\ qualifyingStreakStart # Null
  /\ streakDuration = now - qualifyingStreakStart
  /\ streakDuration > 0

\* v held between lo and hi.
Clamp(v, lo, hi) == IF v < lo THEN lo ELSE IF v > hi THEN hi ELSE v

\* C14: in live mode with a measured container, panX is
\* containerWidth - svgWidth clamped to [-(svgWidth - Y_AXIS_W), 0]; in every
\* state -(svgWidth - Y_AXIS_W) <= panX <= 0 and the lower bound is at most
\* the upper; and when svgWidth > containerWidth >= Y_AXIS_W, panX is
\* exactly containerWidth - svgWidth.
C14_PanIsClampedOverflow ==
  ~crashed =>
    LET svgW == svgWidth
        pan == PanX(liveScroll, containerWidth, svgW)
        lower == -(svgW - Px(Y_AXIS_W))
        width == Px(containerWidth)
    IN  /\ lower <= 0
        /\ lower <= pan /\ pan <= 0
        /\ (liveScroll /\ containerWidth > 0) =>
             /\ pan = Clamp(width - svgW, lower, 0)
             /\ (svgW > width /\ containerWidth >= Y_AXIS_W) => pan = width - svgW

\* C14 witness: live mode and a chart wider than the measured container,
\* which is wider than the axis; the chart is panned left by the overflow.
C14_Witness ==
  /\ ~crashed
  /\ liveScroll
  /\ containerWidth >= Y_AXIS_W
  /\ svgWidth > Px(containerWidth)
  /\ panX = Px(containerWidth) - svgWidth
  /\ panX < 0
  /\ panX > -(svgWidth - Px(Y_AXIS_W))

\* The durations of the first k contractions added up.
RECURSIVE DurationsTo(_, _)
DurationsTo(cs, k) == IF k = 0 THEN 0 ELSE cs[k].duration + DurationsTo(cs, k - 1)

\* C15: avgRecentInterval is null with fewer than two contractions and
\* otherwise the mean of all start-to-start intervals of the session (their
\* sum is last start - first start, over Len - 1 intervals); avgRecentDuration
\* is null with no contraction and otherwise the mean of all durations; the
\* Frequency tile is met exactly when the former is at most five minutes and
\* the Duration tile exactly when the latter is at least one minute,
\* whatever the streak is.
C15_AveragesOverWholeSession ==
  LET cs == contractions
      n == Len(cs)
      ai == AvgRecentInterval(cs)
      ad == AvgRecentDuration(cs)
  IN  /\ n < 2 => ai.isNull
      /\ n >= 2 => /\ ~ai.isNull
                   /\ ai.count = n - 1
                   /\ ai.sum = cs[n].start - cs[1].start
                   /\ \A i \in 1..(n - 1) :
                        AllIntervals(cs)[i] = cs[i + 1].start - cs[i].start
      /\ n = 0 => ad.isNull
      /\ n >= 1 => /\ ~ad.isNull
                   /\ ad.count = n
                   /\ ad.sum = DurationsTo(cs, n)
      /\ FrequencyMet(cs) <=>
           (n >= 2 /\ cs[n].start - cs[1].start <= FIVE_MIN_MS * (n - 1))
      /\ DurationMet(cs) <=>
           (n >= 1 /\ DurationsTo(cs, n) >= ONE_MIN_MS * n)

\* C15 witness: both tiles are met, on means that sit exactly on their
\* thresholds, while the last contraction is too short for a streak.
C15_Witness ==
  /\ Len(contractions) >= 2
  /\ now > BadgeMountTime(contractions)
  /\ FrequencyMet(contractions)
  /\ DurationMet(contractions)
  /\ \E i \in 1..Len(contractions) : contractions[i].duration < ONE_MIN_MS
  /\ \E i \in 1..(Len(contractions) - 1) :
       contractions[i + 1].start - contractions[i].start > FIVE_MIN_MS
  /\ qualifyingStreakStart = Null
  /\ streakDuration = 0

\* Every recorded contraction has duration = end - start >= 1000.
WellFormedHistory(cs) ==
  \A i \in 1..Len(cs) :
    /\ cs[i].duration = cs[i].end - cs[i].start
    /\ cs[i].duration >= MIN_DURATION_MS

\* C16: the contraction a toggle appends starts at activeStart, ends at now
\* and has duration = end - start >= 1000; and in every state every recorded
\* contraction has duration = end - start >= 1000.
C16_AppendedEventsAreWellFormed ==
  /\ [](~crashed => WellFormedHistory(contractions))
  /\ [][ (End /\ contractions' # contractions) =>
           /\ Last(contractions').start = activeStart
           /\ Last(contractions').end = now
           /\ Last(contractions').duration = now - activeStart
           /\ Last(contractions').duration >= MIN_DURATION_MS ]_vars

\* C16 witness: right after a toggle appended a contraction longer than the
\* minimum to a history that held one already.
C16_Witness ==
  /\ lastCmd = "end"
  /\ persistPending
  /\ Len(contractions) >= 2
  /\ Last(contractions).end = now
  /\ Last(contractions).duration = Last(contractions).end - Last(contractions).start
  /\ Last(contractions).duration > MIN_DURATION_MS

\* A command other than Clear Session, or an effect or measurement that runs
\* between commands.
KeepingStep ==
  \/ \E t \in Instants : Begin(t)
  \/ \E t \in Instants : Tick(t)
  \/ \E n \in IntensityInputs : SetIntensity(n)
  \/ ToggleLive
  \/ \E w \in MeasuredWidths : Measure(w)
  \/ PersistEffect

\* C17: begin, tick, slider and Live steps leave contractions as they were;
\* a toggle that ends a contraction leaves them as they were or appends one
\* at the tail; Clear Session removes all of them.
C17_HistoryIsAppendOnly ==
  [][ /\ KeepingStep => contractions' = contractions
      /\ End => \/ contractions' = contractions
                \/ /\ Len(contractions') = Len(contractions) + 1
                   /\ Front(contractions') = contractions
      /\ ClearSession => contractions' = << >> ]_vars

\* C17 witness: right after a toggle appended a third contraction behind two
\* that differ.
C17_Witness ==
  /\ lastCmd = "end"
  /\ persistPending
  /\ Len(contractions) = 3
  /\ contractions[1] # contractions[2]
  /\ contractions[1].start < contractions[2].start
  /\ contractions[2].start < contractions[3].start
  /\ Last(contractions).end = now

\* C18: every rest the chart computes is non-negative: each recorded
\* contraction starts no earlier than the one before it ended, and an open
\* contraction starts no earlier than the last recorded one ended.
C18_RestsAreNonNegative ==
  ~crashed =>
    /\ \A i \in 2..Len(contractions) :
         contractions[i].start - contractions[i - 1].end >= 0
    /\ (activeStart # Null /\ Len(contractions) > 0) =>
         activeStart - Last(contractions).end >= 0

\* C18 witness: a contraction that began at the very instant the one before
\* ended, and an open contraction that began after the last one ended.
C18_Witness ==
  /\ Ready
  /\ Len(contractions) >= 2
  /\ contractions[2].start = contractions[1].end
  /\ activeStart # Null
  /\ activeStart > Last(contractions).end
  /\ now > activeStart

\* The stored text holds recorded contractions only: it is absent or
\* malformed, or the text of the history, or of the history before the
\* contraction whose persist effect is pending; and no stored item is the
\* open contraction.
StoredTextHoldsHistoryOnly ==
  storage.kind = "array" =>
    /\ \/ storage = Stringify(contractions)
       \/ persistPending /\ Len(contractions) > 0
                         /\ storage = Stringify(Front(contractions))
    /\ activeStart # Null =>
         \A i \in 1..Len(storage.items) : storage.items[i][2] # activeStart

\* C19: the toggle begins a contraction only when none is open and ends the
\* open one otherwise; ending it, recorded or discarded, leaves none open
\* and adds no or one contraction; the persist effect writes the history
\* only, and a reload starts with no open contraction.
C19_OneOpenContraction ==
  /\ [](~crashed => StoredTextHoldsHistoryOnly)
  /\ [][ /\ (\E t \in Instants : Begin(t)) =>
              /\ activeStart = Null
              /\ activeStart' # Null
              /\ contractions' = contractions
         /\ End =>
              /\ activeStart # Null
              /\ activeStart' = Null
              /\ Len(contractions') - Len(contractions) \in {0, 1}
         /\ PersistEffect => storage' = Stringify(contractions)
         /\ (\E t \in Instants : Reload(t)) => activeStart' = Null ]_vars

\* C19 witness: a contraction is open and ticking, after one was recorded
\* and one discarded or reloaded away, and the stored text is that of the
\* history alone.
C19_Witness ==
  /\ Ready
  /\ activeStart # Null
  /\ now > activeStart
  /\ Len(contractions) > 0
  /\ storage = Stringify(contractions)
  /\ \A i \in 1..Len(storage.items) : storage.items[i][2] # activeStart

\* C20: a slider change leaves the history, and so every recorded intensity,
\* as it was; while a contraction is open its bell is the one active bell and
\* carries the slider's value over 10 with progress 1; and the contraction a
\* toggle appends stores the slider's value at that toggle over 10, between
\* 0.1 and 1.0 (levels are in hundredths).
C20_IntensityIsReadAtEnd ==
  /\ [](~crashed =>
          LET segs == segments
              bells == { i \in 1..Len(segs) : segs[i].type = "bell" /\ segs[i].active }
          IN  /\ activeStart = Null => bells = {}
              /\ activeStart # Null =>
                   /\ bells = { Len(segs) - 1 }
                   /\ segs[Len(segs) - 1].level * 10 = intensity * 100
                   /\ RevealFraction(segs[Len(segs) - 1]) = 1)
  /\ [][ /\ (\E n \in IntensityInputs : SetIntensity(n)) =>
              contractions' = contractions
         /\ (End /\ contractions' # contractions) =>
              /\ Last(contractions').intensity * 10 = intensity * 100
              /\ Last(contractions').intensity \in 10..100 ]_vars

\* C20 witness: right after a toggle appended a contraction that was begun
\* under another slider value than the one it stores.
C20_Witness ==
  /\ lastCmd = "end"
  /\ persistPending
  /\ intensityAtBegin # Null
  /\ intensityAtBegin # intensity
  /\ Last(contractions).intensity = StoredIntensity(intensity)
  /\ Last(contractions).intensity # StoredIntensity(intensityAtBegin)

\* C21 (as stated): for every progress in [0, 1], the fill is the stroke
\* closed down to the baseline at the x of the last sampled point,
\* x0 + (floor(80 * progress) / 80) * widthPx, and back to x0; and both
\* outputs are empty exactly when fewer than 2 points are sampled
\* (floor(80 * progress) < 1).
C21_FillClosesAtLastSample ==
  drawn.called =>
    LET maxStep == (STEPS * drawn.progress) \div ProgressUnit
        stroke == drawn.path.stroke
        fill == drawn.path.fill
        sampledX == ToFixed1(drawn.x0 * STEPS + maxStep * drawn.widthPx, STEPS)
    IN  /\ (stroke = << >>) <=> (maxStep < 1)
        /\ (fill = << >>) <=> (maxStep < 1)
        /\ maxStep >= 1 =>
             /\ Len(stroke) = maxStep + 1
             /\ stroke[Len(stroke)][1] = sampledX
             /\ fill = stroke \o << << sampledX, PLOT_H * 10 >>,
                                   << ToFixed1(drawn.x0, 1), PLOT_H * 10 >> >>

\* C22: the leading gap is at x = Y_AXIS_W + 8 - LEAD_PX = 28 and 24 wide;
\* every later segment starts where the one before it ends; the last segment
\* is the 24-wide trailing gap and ends at svgWidth; no two bells are next
\* to each other; and with no contraction recorded or open there are just
\* the two gaps and svgWidth is 76.
C22_SegmentsTileTheAxis ==
  ~crashed =>
    LET chart == Chart(contractions, activeStart, now, intensity)
        segs == chart.segments
        n == Len(segs)
    IN  /\ n >= 2
        /\ segs[1].type = "flat" /\ segs[1].x = Px(28) /\ segs[1].widthPx = Px(24)
        /\ segs[1].x = Px(Y_AXIS_W + AXIS_INSET - LEAD_PX)
        /\ \A i \in 2..n : segs[i].x = segs[i - 1].x + segs[i - 1].widthPx
        /\ segs[n].type = "flat" /\ segs[n].widthPx = Px(24)
        /\ segs[n].x + segs[n].widthPx = chart.svgWidth
        /\ \A i \in 2..n : ~(segs[i].type = "bell" /\ segs[i - 1].type = "bell")
        /\ (Len(contractions) = 0 /\ activeStart = Null) =>
             /\ n = 2
             /\ chart.svgWidth = Px(76)

\* C22 witness: two recorded contractions and an open one, so that the chart
\* is gap, bell, rest, bell, rest, active bell, gap.
C22_Witness ==
  /\ Ready
  /\ Len(contractions) = 2
  /\ activeStart # Null
  /\ now > activeStart
  /\ Len(segments) = 7
  /\ segments[6].type = "bell" /\ segments[6].active
  /\ segments[7].x + segments[7].widthPx = svgWidth

\* A step in which no contraction is appended and the session is not
\* cleared: a tick, a begin, a slider change, a discarded end, the Live
\* button, a measurement, the persist effect, or a reload of a persisted
\* session.
IdleStep ==
  \/ QuietStep
  \/ ToggleLive
  \/ \E w \in MeasuredWidths : Measure(w)
  \/ PersistEffect
  \/ (Ready /\ \E t \in Instants : Reload(t))

\* C23: once rule511Met is true it stays true over every step that appends
\* no contraction and does not clear; and with a single contraction of at
\* least one minute, rule511Met is true exactly when now is at least one
\* hour after its start.
C23_IdleTimeKeepsTheRuleMet ==
  /\ [][ (IdleStep /\ ~crashed /\ rule511Met) => rule511Met' ]_vars
  /\ []( (~crashed /\ Len(contractions) = 1
            /\ contractions[1].duration >= ONE_MIN_MS) =>
           (rule511Met <=> now >= contractions[1].start + ONE_HOUR_MS) )

\* C23 witness: a single contraction of at least a minute, which ended more
\* than five minutes ago and started an hour ago or more; the rule is met.
C23_Witness ==
  /\ Ready
  /\ Len(contractions) = 1
  /\ contractions[1].duration >= ONE_MIN_MS
  /\ contractions[1].duration < ONE_HOUR_MS
  /\ now - contractions[1].end > FIVE_MIN_MS
  /\ now >= contractions[1].start + ONE_HOUR_MS
  /\ rule511Met

\* The streak starts of the histories the session went through since it was
\* last cleared (the prefixes of the history) do not decrease.
StreakStartsNeverDecrease(cs) ==
  \A j \in 1..Len(cs) : \A k \in j..Len(cs) :
    LET earlier == QualifyingStreakStart(SubSeq(cs, 1, j))
        later == QualifyingStreakStart(SubSeq(cs, 1, k))
    IN  (earlier # Null /\ later # Null) => earlier <= later

\* C24: when a toggle appends a contraction, the new qualifyingStreakStart is
\* null (exactly when the new contraction is shorter than a minute), or the
\* previous non-null one, or the start of the new contraction; and over the
\* histories since the last clear its non-null values never decrease.
C24_StreakStartNeverMovesBack ==
  /\ [](~crashed => StreakStartsNeverDecrease(contractions))
  /\ [][ (End /\ contractions' # contractions) =>
           /\ (qualifyingStreakStart' = Null) <=>
                (Last(contractions').duration < ONE_MIN_MS)
           /\ \/ qualifyingStreakStart' = Null
              \/ qualifyingStreakStart # Null /\ qualifyingStreakStart' = qualifyingStreakStart
              \/ qualifyingStreakStart' = Last(contractions').start
           /\ (qualifyingStreakStart # Null /\ qualifyingStreakStart' # Null) =>
                qualifyingStreakStart' >= qualifyingStreakStart ]_vars

\* C24 witness: right after a second contraction restarted the streak: the
\* first one made a streak, the second started more than five minutes after
\* it and lasts a minute or more.
C24_Witness ==
  /\ lastCmd = "end"
  /\ persistPending
  /\ Len(contractions) = 2
  /\ QualifyingStreakStart(Front(contractions)) = contractions[1].start
  /\ contractions[2].start - contractions[1].start > FIVE_MIN_MS
  /\ qualifyingStreakStart = contractions[2].start
  /\ qualifyingStreakStart > contractions[1].start

\* C25: once the persist effect has run, the stored text is the
\* serialization of the history and loading it gives the history back, item
\* by item (id, start, end, duration, intensity); a reload then restores the
\* same contractions in the same order, with the slider back at 5, live mode
\* on and no open contraction.
C25_PersistedSessionSurvivesReload ==
  /\ [](Ready =>
          /\ storage = Stringify(contractions)
          /\ LoadedIsArray(storage)
          /\ Len(LoadContractions(storage)) = Len(contractions)
          /\ \A i \in 1..Len(contractions) :
               LET c == LoadContractions(storage)[i]
               IN  /\ c.id = contractions[i].id
                   /\ c.start = contractions[i].start
                   /\ c.end = contractions[i].end
                   /\ c.duration = contractions[i].duration
                   /\ c.intensity = contractions[i].intensity)
  /\ [][ (Ready /\ \E t \in Instants : Reload(t)) =>
           /\ contractions' = contractions
           /\ intensity' = DEFAULT_INTENSITY
           /\ liveScroll' = TRUE
           /\ activeStart' = Null
           /\ ~crashed' ]_vars

\* C25 witness: right after a reload that restored two contractions recorded
\* under different slider values, the last one under 10; the slider is back
\* at 5 and live mode is on.
C25_Witness ==
  /\ lastCmd = "load"
  /\ persistPending
  /\ ~crashed
  /\ Len(contractions) >= 2
  /\ contractions = LoadContractions(storage)
  /\ contractions[1].intensity = StoredIntensity(DEFAULT_INTENSITY)
  /\ Last(contractions).intensity = StoredIntensity(10)
  /\ intensity = DEFAULT_INTENSITY
  /\ liveScroll
  /\ activeStart = Null

====
